---------------------------- MODULE Spec2Model ----------------------------
(***************************************************************************)
(* Model of the WSPR ingestion pipeline: ingest.py (download_archive,      *)
(* read_spots, wspr_import, main), dbutils.py (SQL_TABLE, DBConnect,       *)
(* create_db) and the store access of heat.py (load_data).                 *)
(*                                                                         *)
(* A spot line is [id, kind], id being the value int() gives its first     *)
(* field:                                                                  *)
(*   "ok"     a well formed line of 15 fields;                             *)
(*   "fields" at least 6 fields, but not 15: it passes read_spots (line    *)
(*            104 has lengthened the list when fields[7] is read) and      *)
(*            fails in executemany with ProgrammingError;                  *)
(*   "short"  fewer than 6 fields: read_spots skips it when its id is at   *)
(*            or below the watermark and raises IndexError at fields[3]    *)
(*            or fields[7] when it is above;                               *)
(*   "text"   15 fields and a first field that int() accepts and sqlite    *)
(*            does not take as an integer ("1_0", 20 digits): it passes    *)
(*            read_spots and executemany raises IntegrityError (datatype   *)
(*            mismatch) at it;                                             *)
(*   "noid"   a first field that is not a number: int() raises ValueError. *)
(* A stored record is identified by its spot_id, the primary key of wspr.  *)
(*                                                                         *)
(* A file is [exists, head, pad, lines, complete].  Its size is counted in *)
(* units: one for the gzip header (head), pad units that complete no line  *)
(* (the byte length of a gzip body is not a function of its number of      *)
(* lines: an archive that got a line can be as long as it was, or          *)
(* shorter), one for each whole line, one for the gzip trailer (complete). *)
(* A file of zero bytes has none of them; a file cut inside the header or  *)
(* inside its first line has no whole line.                                *)
(***************************************************************************)
EXTENDS Integers, Sequences, FiniteSets, TLC

\* Largest spot_id the remote source hands out.
MaxId == 3
\* Largest number of lines the remote source publishes, all archives together.
MaxLen == 3
\* Batch size of wspr_import.  The program uses 1000 (ingest.py line 39); the
\* model scales it down so that full and partial batches fit in MaxLen lines.
BULK_LENGTH == 2
\* Largest number of failures of the environment in one behaviour: kills of
\* the process, connections that break during a transfer, faults of the
\* storage engine.
MaxFailures == 1
\* Largest number of units by which the byte length of an archive exceeds
\* one unit for each of its lines.
MaxPad == 1

VARIABLES
  remote,      \* month -> lines of that month's archive on the remote server
  rpad,        \* month -> pad of the gzip body the server sends for it
  localf,      \* month -> the file at that month's target_path in TMP_DIR
  store,       \* the file DB_NAME exists
  schema,      \* objects of the sqlite file DB_NAME
  db,          \* committed rows of table wspr (their spot_ids)
  tx,          \* rows inserted on the open connection and not yet committed
  conn,        \* connection of the latest DBConnect: "none", "open", "closed"
  pc,          \* "idle", "download" (line 89), "store" (line 146), "create"
               \* (inside create_db), "import", "exit" (__exit__ entered),
               \* "close" (commit() has returned)
  month,       \* the month whose archive the latest run works on
  last_id,     \* main's last_id, start_id of read_spots
  pos,         \* next line the read_spots generator will read
  stmt,        \* next statement of SQL_TABLE that executescript will run
  counter,     \* wspr_import's counter
  exc,         \* exception propagating out of the run ("none" if none)
  result,      \* how far the latest operation got, or how it ended
  handed,      \* batches given to executemany in this run: [rows, done]
  ncommit,     \* commits of this run that made inserted rows durable
  fetch,       \* the options of this run and what download_archive did in it
  dbAtStart,   \* db when the latest operation started
  schemaBefore, \* schema when create_db was called on the store as it is
  failures,    \* failures of the environment so far
  prev,        \* how the run before this one ended, the archive unchanged since
  sameFile     \* this run reads the file content the previous run read

vars == <<remote, rpad, localf, store, schema, db, tx, conn, pc, month, last_id, pos,
          stmt, counter, exc, result, handed, ncommit, fetch, dbAtStart,
          schemaBefore, failures, prev, sameFile>>

\* download_archive lines 76-78: the archive of the current month, or of the
\* month given with --month.
Months == {"now", "other"}

Lines == [id : 1..MaxId, kind : {"ok", "fields", "short", "text"}]
           \cup {[id |-> 0, kind |-> "noid"]}

NoFile == [exists |-> FALSE, head |-> FALSE, pad |-> 0, lines |-> <<>>,
           complete |-> FALSE]

\* The file open(target_path, 'wb') leaves before the first write.
EmptyFile == [exists |-> TRUE, head |-> FALSE, pad |-> 0, lines |-> <<>>,
              complete |-> FALSE]

\* The gzip file holding the whole archive rem, with p units of pad.
Whole(rem, p) == [exists |-> TRUE, head |-> TRUE, pad |-> p, lines |-> rem,
                  complete |-> TRUE]

Max(S) == IF S = {} THEN 0 ELSE CHOOSE m \in S : \A x \in S : x <= m

Ceil(m, b) == (m + b - 1) \div b

(***************************************************************************)
(* dbutils.py                                                              *)
(***************************************************************************)

\* SQL_TABLE: the statements of the script that create something, in order.
\* Each is [name, guarded]: guarded is TRUE for CREATE ... IF NOT EXISTS.
\* The two PRAGMA statements that follow create nothing and never fail.
SQL_TABLE ==
  << [name |-> "wspr",        guarded |-> TRUE],
     [name |-> "idx_time",    guarded |-> FALSE],
     [name |-> "idx_tx_call", guarded |-> FALSE],
     [name |-> "idx_rx_call", guarded |-> FALSE],
     [name |-> "idx_band",    guarded |-> FALSE] >>

\* One statement of cursor.executescript(SQL_TABLE) on a store holding the
\* objects sch.  executescript runs in autocommit mode: each statement is
\* durable when it returns.  CREATE INDEX on an index that exists raises
\* OperationalError ("index ... already exists") and ends the script.
execute(s, sch) ==
  IF s.name \in sch
  THEN [schema |-> sch, err |-> IF s.guarded THEN "none" ELSE "OperationalError"]
  ELSE [schema |-> sch \cup {s.name}, err |-> "none"]

\* connect(): isolation_level="DEFERRED", so an INSERT opens a transaction
\* that lasts until commit(); with isolation_level=None every row would be
\* durable as soon as it is inserted.
AutocommitOn == TRUE
Autocommit == FALSE

\* DBConnect.__exit__, line 47: self.conn.commit().  commitOK is its outcome;
\* it can only fail when a transaction is open (disk full while the rows are
\* written).  When commit() raises, the rows are lost and line 48,
\* self.conn.close(), is not reached.
DBExit(d, t, commitOK) ==
  IF commitOK \/ t = {}
  THEN [db |-> d \cup t, err |-> "none", commits |-> IF t = {} THEN 0 ELSE 1]
  ELSE [db |-> d, err |-> "OperationalError", commits |-> 0]

(***************************************************************************)
(* ingest.py: the archive fetcher                                          *)
(***************************************************************************)

\* st_size of a file, and Content-Length (resp.length) when f is the body
\* the server sends.
GzSize(f) ==
  (IF f.head THEN 1 ELSE 0) + f.pad + Len(f.lines) + (IF f.complete THEN 1 ELSE 0)

\* get_size(filename): 0 when the file does not exist, else st_size.
get_size(f) == IF ~f.exists THEN 0 ELSE GzSize(f)

\* The freshness test of download_archive, line 84, negated: the body is
\* fetched when force is set or the remote length exceeds the local size.
FreshOrEqual(force, L, S) == force \/ L >= S
Fresh(force, L, S) == ~(~force /\ L <= S)

\* What urlopen(url) can do, line 83: return a response ("ok"), raise
\* URLError (refused connection, HTTP error status), or raise
\* http.client.RemoteDisconnected, which is not a URLError.
NetOpenFailures == {"URLError", "RemoteDisconnected"}
NetOpen == {"ok"} \cup NetOpenFailures

\* download_archive(path, month, force), lines 82-88, on the local file f and
\* the body the server sends: up to the point where target_path has been opened
\* for writing.  ret is "None", "raise" (an exception other than URLError
\* leaves the function) or "pending" (the read loop of line 89 is next).
\* branch tells which way line 84 went.
download_archive(f, body, force, open) ==
  IF open = "URLError"
  THEN [ret |-> "None", file |-> f, branch |-> "error", exc |-> "none"]
  ELSE IF open # "ok"
  THEN [ret |-> "raise", file |-> f, branch |-> "error", exc |-> open]
  ELSE IF ~Fresh(force, GzSize(body), get_size(f))
  THEN [ret |-> "None", file |-> f, branch |-> "skip", exc |-> "none"]
  ELSE [ret |-> "pending", file |-> EmptyFile, branch |-> "download", exc |-> "none"]

\* Lines 89-90: the next buffer of the body is written to the file f.
Grow(f, body) ==
  IF ~f.head THEN [f EXCEPT !.head = TRUE]
  ELSE IF f.pad < body.pad THEN [f EXCEPT !.pad = f.pad + 1]
  ELSE IF Len(f.lines) < Len(body.lines)
       THEN [f EXCEPT !.lines = Append(f.lines, body.lines[Len(f.lines) + 1])]
       ELSE [f EXCEPT !.complete = TRUE]

\* What resp.read(BUF_SIZE) can do, line 89: return data, return b'' (the
\* body is at its end, or the peer closed the connection early), or raise
\* ConnectionResetError.
NetRead == {"data", "end", "reset"}

\* f is what a transfer of body leaves when it stops at some point.
IsPrefix(f, body) ==
  /\ f.exists
  /\ f.pad <= body.pad
  /\ f.pad > 0 => f.head
  /\ Len(f.lines) <= Len(body.lines)
  /\ f.lines = SubSeq(body.lines, 1, Len(f.lines))
  /\ (f.lines # <<>> \/ f.complete) => (f.head /\ f.pad = body.pad)
  /\ f.complete => f.lines = body.lines

(***************************************************************************)
(* ingest.py: the spot reader                                              *)
(***************************************************************************)

\* read_spots line 102: a line is skipped when its id is <= start_id.
SkipBelowNext(id, start_id) == id <= start_id + 1
Skip(id, start_id) == id <= start_id

\* One __next__() of the read_spots generator standing before line p of file
\* f.  A gzip file cut short raises EOFError once its whole lines are used
\* up; a file of zero bytes reads as an empty archive.
RECURSIVE NextSpot(_, _, _)
NextSpot(f, p, start_id) ==
  IF p > Len(f.lines)
  THEN [tag |-> IF f.complete \/ get_size(f) = 0 THEN "StopIteration" ELSE "EOFError",
        line |-> [id |-> 0, kind |-> "noid"], pos |-> p]
  ELSE IF f.lines[p].kind = "noid"
       THEN [tag |-> "ValueError", line |-> f.lines[p], pos |-> p]
  ELSE IF Skip(f.lines[p].id, start_id)
       THEN NextSpot(f, p + 1, start_id)
  ELSE IF f.lines[p].kind = "short"
       THEN [tag |-> "IndexError", line |-> f.lines[p], pos |-> p]
  ELSE [tag |-> "yield", line |-> f.lines[p], pos |-> p + 1]

(***************************************************************************)
(* ingest.py: wspr_import                                                  *)
(***************************************************************************)

\* Lines 116-118: bulk = [] and up to n more __next__() calls.  tag is "full"
\* when the for loop ran to its end, else the exception that ended it.
RECURSIVE FillBulk(_, _, _, _, _)
FillBulk(f, p, start_id, bulk, n) ==
  IF n = 0 THEN [tag |-> "full", bulk |-> bulk, pos |-> p]
  ELSE LET r == NextSpot(f, p, start_id)
       IN IF r.tag = "yield"
          THEN FillBulk(f, r.pos, start_id, Append(bulk, r.line), n - 1)
          ELSE [tag |-> r.tag, bulk |-> bulk, pos |-> r.pos]

\* cursor.executemany(INSERT, rows): the rows are inserted one by one, from
\* row i on, into a table whose committed ids are d and whose ids pending in
\* the open transaction are t.  A row with the wrong number of fields raises
\* ProgrammingError, a spot_id already in the table or one that is not an
\* integer IntegrityError: the rows inserted before it stay in the
\* transaction.  The engine itself fails
\* at row fault with OperationalError ("database or disk is full"), and
\* sqlite then rolls the whole transaction back, earlier batches included.
\* done counts the rows the call inserted before it ended.
RECURSIVE executemany(_, _, _, _, _)
executemany(rows, i, d, t, fault) ==
  IF i > Len(rows) THEN [done |-> i - 1, tx |-> t, err |-> "none"]
  ELSE IF i = fault THEN [done |-> i - 1, tx |-> {}, err |-> "OperationalError"]
  ELSE IF rows[i].kind = "fields"
       THEN [done |-> i - 1, tx |-> t, err |-> "ProgrammingError"]
  ELSE IF rows[i].kind = "text" \/ rows[i].id \in d \cup t
       THEN [done |-> i - 1, tx |-> t, err |-> "IntegrityError"]
  ELSE executemany(rows, i + 1, d, t \cup {rows[i].id}, fault)

\* Line 122: the last, partial batch is inserted when it is not empty.
FlushFinal(bulk) == bulk # <<>>

\* Lines 154-155: SELECT MAX(spot_id), 0 for an empty table.
LastIdZero(d) == 0
LastId(d) == IF d = {} THEN 0 ELSE Max(d)

(***************************************************************************)
(* The state machine                                                       *)
(***************************************************************************)

\* fetch.called is FALSE for a run with --filename.  S is the size the local
\* file had when the freshness test was made.
NoFetch == [called |-> FALSE, force |-> FALSE, ret |-> "None", branch |-> "error",
            xfer |-> "none", S |-> 0]

\* Some row was inserted by the latest run.
SomeInserted == \E i \in 1..Len(handed) : handed[i].done > 0

\* How the latest run ended, as the next run remembers it: "ok", "aborted"
\* (the import raised after rows were inserted, and the scope was left by
\* commit() and close()), or "other".
Ended ==
  IF result = "ok" THEN "ok"
  ELSE IF result = "crash" /\ SomeInserted /\ conn = "closed" THEN "aborted"
  ELSE "other"

Init ==
  /\ remote = [m \in Months |-> <<>>]
  /\ rpad = [m \in Months |-> 0]
  /\ localf = [m \in Months |-> NoFile]
  /\ store = FALSE
  /\ schema = {}
  /\ db = {}
  /\ tx = {}
  /\ conn = "none"
  /\ pc = "idle"
  /\ month = "now"
  /\ last_id = 0
  /\ pos = 1
  /\ stmt = 1
  /\ counter = 0
  /\ exc = "none"
  /\ result = "none"
  /\ handed = <<>>
  /\ ncommit = 0
  /\ fetch = NoFetch
  /\ dbAtStart = {}
  /\ schemaBefore = {}
  /\ failures = 0
  /\ prev = "other"
  /\ sameFile = FALSE

\* A new process starts: it has imported nothing.
NewProcess ==
  /\ tx' = {}
  /\ last_id' = 0
  /\ pos' = 1
  /\ stmt' = 1
  /\ counter' = 0
  /\ handed' = <<>>
  /\ ncommit' = 0
  /\ dbAtStart' = db
  /\ UNCHANGED failures

\* Number of lines of all the remote archives.
Published == Len(remote["now"]) + Len(remote["other"])

\* The body the server sends for month m.
Body(m) == Whole(remote[m], rpad[m])

\* The remote source appends a line to the archive of month m, and the gzip
\* body of the longer archive has p units of pad.  What is remembered of
\* earlier runs is about the archives as they were, and is dropped.
RemoteAppend(m, l, p) ==
  /\ pc = "idle"
  /\ Published < MaxLen
  /\ remote' = [remote EXCEPT ![m] = Append(remote[m], l)]
  /\ rpad' = [rpad EXCEPT ![m] = p]
  /\ NewProcess
  /\ conn' = "none"
  /\ month' = "now"
  /\ exc' = "none"
  /\ result' = "none"
  /\ fetch' = NoFetch
  /\ schemaBefore' = {}
  /\ prev' = "other"
  /\ sameFile' = FALSE
  /\ UNCHANGED <<localf, store, schema, db, pc>>

\* main, lines 128-144, and download_archive up to line 88: a new process
\* parses its options and resolves the file to import.  With --filename the
\* file is the one at the target_path of month m.  open is what urlopen does.
Start(force, byname, m, open) ==
  /\ pc = "idle"
  /\ NewProcess
  /\ conn' = "none"
  /\ month' = m
  /\ prev' = IF m = month THEN Ended ELSE "other"
  /\ schemaBefore' = {}
  /\ IF byname
     THEN /\ localf' = localf
          /\ fetch' = [NoFetch EXCEPT !.ret = "path"]
          /\ exc' = "none"
          /\ pc' = IF localf[m].exists THEN "store" ELSE "idle"
          /\ result' = IF localf[m].exists THEN "running" ELSE "nothing"
          /\ sameFile' = localf[m].exists
     ELSE LET d == download_archive(localf[m], Body(m), force, open)
              pending == d.ret = "pending"
          IN /\ localf' = [localf EXCEPT ![m] = d.file]
             /\ fetch' = [called |-> TRUE, force |-> force, ret |-> d.ret,
                          branch |-> d.branch, xfer |-> "none",
                          S |-> IF pending THEN get_size(localf[m]) ELSE 0]
             /\ exc' = d.exc
             /\ pc' = IF pending THEN "download" ELSE "idle"
             /\ result' = IF d.ret = "raise" THEN "crash"
                          ELSE IF pending THEN "running" ELSE "nothing"
             /\ sameFile' = IF pending THEN IsPrefix(localf[m], Body(m))
                            ELSE localf[m].exists
  /\ UNCHANGED <<remote, rpad, store, schema, db>>

\* download_archive, lines 89-95, and main, line 142: one resp.read(BUF_SIZE).
\* Data is written to the file; b'' ends the loop, and target_path is
\* returned whether or not the whole body came; ConnectionResetError is not a
\* URLError and leaves main.  early says whether the connection can end
\* before the whole body was sent.
ReadChunk(out, early) ==
  /\ pc = "download"
  /\ LET f == localf[month]
         atEnd == f = Body(month)
     IN IF out = "data"
        THEN /\ ~atEnd
             /\ localf' = [localf EXCEPT ![month] = Grow(f, Body(month))]
             /\ UNCHANGED <<pc, exc, result, fetch, sameFile, failures>>
        ELSE IF out = "end"
        THEN /\ atEnd \/ (early /\ failures < MaxFailures)
             /\ failures' = IF atEnd THEN failures ELSE failures + 1
             /\ pc' = "store"
             /\ fetch' = [fetch EXCEPT !.ret = "path",
                            !.xfer = IF atEnd THEN "complete" ELSE "eof"]
             /\ sameFile' = (sameFile /\ fetch.S = get_size(f))
             /\ UNCHANGED <<localf, exc, result>>
        ELSE /\ ~atEnd /\ early /\ failures < MaxFailures
             /\ failures' = failures + 1
             /\ pc' = "idle"
             /\ exc' = "ConnectionResetError"
             /\ result' = "crash"
             /\ fetch' = [fetch EXCEPT !.ret = "raise", !.xfer = "reset"]
             /\ sameFile' = FALSE
             /\ UNCHANGED localf
  /\ UNCHANGED <<remote, rpad, store, schema, db, tx, conn, month, last_id, pos, stmt,
                 counter, handed, ncommit, dbAtStart, schemaBefore, prev>>

\* main, lines 146-156, and wspr_import, lines 110-113.  When DB_NAME does
\* not exist create_db is entered: connect() creates the file.  Else the
\* watermark is read in a DBConnect scope of its own: SELECT MAX fails with
\* OperationalError on a store without table wspr ("no such table") and when
\* the engine fails (engineOK is FALSE: "disk I/O error" on a full disk);
\* else the connection of the import is opened.  Of fetch only the way the
\* file was obtained is remembered from here on.
OpenStore(engineOK) ==
  /\ pc = "store"
  /\ engineOK \/ (store /\ "wspr" \in schema /\ failures < MaxFailures)
  /\ failures' = IF engineOK THEN failures ELSE failures + 1
  /\ fetch' = [NoFetch EXCEPT !.called = fetch.called, !.ret = "path",
                              !.xfer = fetch.xfer]
  /\ IF ~store
     THEN /\ store' = TRUE
          /\ conn' = "open"
          /\ stmt' = 1
          /\ pc' = "create"
          /\ UNCHANGED <<last_id, exc, result>>
     ELSE IF "wspr" \notin schema \/ ~engineOK
     THEN /\ conn' = "closed"
          /\ exc' = "OperationalError"
          /\ result' = "crash"
          /\ pc' = "idle"
          /\ UNCHANGED <<store, last_id, stmt>>
     ELSE /\ last_id' = LastId(db)
          /\ conn' = "open"
          /\ pc' = "import"
          /\ UNCHANGED <<store, stmt, exc, result>>
  /\ UNCHANGED <<remote, rpad, localf, schema, db, tx, month, pos, counter, handed,
                 ncommit, dbAtStart, schemaBefore, prev, sameFile>>

\* create_db(DB_NAME) called on the store as it is, outside main: the
\* DBConnect scope is entered.
create_db ==
  /\ pc = "idle"
  /\ NewProcess
  /\ store' = TRUE
  /\ conn' = "open"
  /\ pc' = "create"
  /\ month' = "now"
  /\ exc' = "none"
  /\ result' = "creating"
  /\ fetch' = NoFetch
  /\ schemaBefore' = schema
  /\ prev' = "other"
  /\ sameFile' = FALSE
  /\ UNCHANGED <<remote, rpad, localf, schema, db>>

\* create_db, line 60: the next statement of executescript(SQL_TABLE).  A
\* statement that fails, on its own or because the engine does (engineOK is
\* FALSE: disk full), ends the script; the scope is left by commit() and
\* close() and the exception goes on.
executescript(engineOK) ==
  /\ pc = "create"
  /\ stmt <= Len(SQL_TABLE)
  /\ engineOK \/ failures < MaxFailures
  /\ failures' = IF engineOK THEN failures ELSE failures + 1
  /\ LET r == IF engineOK THEN execute(SQL_TABLE[stmt], schema)
              ELSE [schema |-> schema, err |-> "OperationalError"]
     IN /\ schema' = r.schema
        /\ IF r.err = "none"
           THEN /\ stmt' = stmt + 1
                /\ UNCHANGED <<conn, pc, exc, result>>
           ELSE /\ stmt' = 1
                /\ conn' = "closed"
                /\ pc' = "idle"
                /\ exc' = r.err
                /\ result' = IF result = "creating" THEN "create_failed" ELSE "crash"
  /\ UNCHANGED <<remote, rpad, localf, store, db, tx, month, last_id, pos, counter, handed,
                 ncommit, fetch, dbAtStart, schemaBefore, prev, sameFile>>

\* The script is done: the scope of create_db is left.  In main, line 149
\* sets last_id = 0 and wspr_import opens its connection.
CreateEnd ==
  /\ pc = "create"
  /\ stmt > Len(SQL_TABLE)
  /\ stmt' = 1
  /\ IF result = "creating"
     THEN /\ conn' = "closed"
          /\ pc' = "idle"
          /\ result' = "created"
          /\ UNCHANGED last_id
     ELSE /\ conn' = "open"
          /\ pc' = "import"
          /\ last_id' = 0
          /\ UNCHANGED result
  /\ UNCHANGED <<remote, rpad, localf, store, schema, db, tx, month, pos, counter, exc,
                 handed, ncommit, fetch, dbAtStart, schemaBefore, failures, prev, sameFile>>

\* heat.load_data(db_name, start, end): a DBConnect scope around a SELECT on
\* table wspr.  connect() creates the file DB_NAME when it does not exist,
\* and the SELECT then fails with OperationalError ("no such table"); it
\* fails on a store with the table when the engine does (engineOK is FALSE:
\* "disk I/O error" on a full disk).
load_data(engineOK) ==
  /\ pc = "idle"
  /\ engineOK \/ ("wspr" \in schema /\ failures < MaxFailures)
  /\ tx' = {}
  /\ last_id' = 0
  /\ pos' = 1
  /\ stmt' = 1
  /\ counter' = 0
  /\ handed' = <<>>
  /\ ncommit' = 0
  /\ dbAtStart' = db
  /\ failures' = IF engineOK THEN failures ELSE failures + 1
  /\ store' = TRUE
  /\ conn' = "closed"
  /\ month' = "now"
  /\ exc' = IF "wspr" \in schema /\ engineOK THEN "none" ELSE "OperationalError"
  /\ result' = IF "wspr" \in schema /\ engineOK THEN "loaded" ELSE "load_failed"
  /\ fetch' = NoFetch
  /\ schemaBefore' = {}
  /\ prev' = "other"
  /\ sameFile' = FALSE
  /\ UNCHANGED <<remote, rpad, localf, schema, db, pc>>

\* wspr_import, lines 115-124: one turn of the while loop.  fault is the row
\* at which the engine fails (0: it does not).
ImportBatch(fault) ==
  /\ pc = "import"
  /\ LET fb == FillBulk(localf[month], pos, last_id, <<>>, BULK_LENGTH)
         insert == fb.tag = "full" \/ (fb.tag = "StopIteration" /\ FlushFinal(fb.bulk))
         ex == executemany(fb.bulk, 1, db, tx, fault)
     IN /\ fault <= (IF insert THEN Len(fb.bulk) ELSE 0)
        /\ fault > 0 => failures < MaxFailures
        /\ failures' = IF fault > 0 THEN failures + 1 ELSE failures
        /\ pos' = fb.pos
        /\ IF insert
           THEN /\ handed' = Append(handed, [rows |-> fb.bulk, done |-> ex.done])
                /\ db' = IF Autocommit THEN db \cup ex.tx ELSE db
                /\ tx' = IF Autocommit THEN {} ELSE ex.tx
                /\ counter' = IF ex.err = "none" THEN counter + Len(fb.bulk) ELSE counter
                /\ exc' = ex.err
                /\ pc' = IF fb.tag = "full" /\ ex.err = "none" THEN "import" ELSE "exit"
           ELSE /\ exc' = IF fb.tag = "StopIteration" THEN "none" ELSE fb.tag
                /\ pc' = "exit"
                /\ UNCHANGED <<handed, db, tx, counter>>
  /\ UNCHANGED <<remote, rpad, localf, store, schema, conn, month, last_id, stmt, result,
                 ncommit, fetch, dbAtStart, schemaBefore, prev, sameFile>>

\* The DBConnect scope of wspr_import is left (line 112), by the end of the
\* loop or by an exception: __exit__ calls commit().  When commit() raises,
\* the connection is left open and the exception ends the process.
ScopeExit(commitOK) ==
  /\ pc = "exit"
  /\ commitOK \/ (tx # {} /\ failures < MaxFailures)
  /\ failures' = IF commitOK THEN failures ELSE failures + 1
  /\ LET e == DBExit(db, tx, commitOK)
     IN /\ db' = e.db
        /\ ncommit' = ncommit + e.commits
        /\ IF e.err = "none"
           THEN /\ pc' = "close"
                /\ UNCHANGED <<exc, result, pos>>
           ELSE /\ pc' = "idle"
                /\ exc' = e.err
                /\ result' = "crash"
                /\ pos' = 1
  /\ tx' = {}
  /\ UNCHANGED <<remote, rpad, localf, store, schema, conn, month, last_id, stmt, counter,
                 handed, fetch, dbAtStart, schemaBefore, prev, sameFile>>

\* __exit__, line 48, and the end of the process: close(), then line 125
\* logs the counter, or the exception of the import goes on.
Close ==
  /\ pc = "close"
  /\ conn' = "closed"
  /\ result' = IF exc = "none" THEN "ok" ELSE "crash"
  /\ pos' = 1
  /\ pc' = "idle"
  /\ UNCHANGED <<remote, rpad, localf, store, schema, db, tx, month, last_id, stmt, counter,
                 exc, handed, ncommit, fetch, dbAtStart, schemaBefore, failures, prev, sameFile>>

\* The process is terminated (SIGKILL, power loss): the engine rolls the
\* open transaction back; what was written to the local file, to the schema
\* or by a commit() that has returned stays.
Kill ==
  /\ pc \in {"download", "store", "create", "import", "exit", "close"}
  /\ failures < MaxFailures
  /\ failures' = failures + 1
  /\ tx' = {}
  /\ conn' = "none"
  /\ result' = IF pc = "close" THEN "killed_exit"
               ELSE IF pc \in {"import", "exit"} THEN "killed_import"
               ELSE "killed"
  /\ pc' = "idle"
  /\ pos' = 1
  /\ stmt' = 1
  /\ exc' = "none"
  /\ fetch' = [NoFetch EXCEPT !.called = fetch.called]
  /\ UNCHANGED <<remote, rpad, localf, store, schema, db, month, last_id, counter, handed,
                 ncommit, dbAtStart, schemaBefore, prev, sameFile>>

\* The environments the machine is run in.  lines says which lines the remote
\* source may append: a malformed line only when no archive has one yet
\* ("onebad"), well formed lines with distinct spot_ids only ("distinct"), or
\* well formed lines with increasing spot_ids only ("sorted").
\* early says whether a connection can end before the body is complete;
\* faults whether the storage engine can fail on its own (disk full) in
\* executescript, executemany and commit; months which archives are
\* published and asked for; pads the pads the body of an archive can have.
\* The process can be killed in all of them.
MayAppend(m, l, lines) ==
  IF lines = "sorted"
  THEN l.kind = "ok" /\ \A i \in 1..Len(remote[m]) : remote[m][i].id < l.id
  ELSE IF lines = "distinct"
  THEN l.kind = "ok" /\ \A i \in 1..Len(remote[m]) : remote[m][i].id # l.id
  ELSE l.kind = "ok"
       \/ \A n \in Months : \A i \in 1..Len(remote[n]) : remote[n][i].kind = "ok"

Faults(faults) == IF faults THEN 0..BULK_LENGTH ELSE {0}

EngineOutcomes(faults) == IF faults THEN BOOLEAN ELSE {TRUE}

NextIn(lines, early, faults, months, pads) ==
  \/ \E m \in months, l \in Lines, p \in pads :
       MayAppend(m, l, lines) /\ RemoteAppend(m, l, p)
  \/ \E m \in months, force \in BOOLEAN, open \in NetOpen : Start(force, FALSE, m, open)
  \/ \E m \in months : Start(FALSE, TRUE, m, "ok")
  \/ \E out \in NetRead : ReadChunk(out, early)
  \/ \E engineOK \in EngineOutcomes(faults) : OpenStore(engineOK)
  \/ create_db
  \/ \E engineOK \in EngineOutcomes(faults) : executescript(engineOK)
  \/ CreateEnd
  \/ \E engineOK \in EngineOutcomes(faults) : load_data(engineOK)
  \/ \E fault \in Faults(faults) : ImportBatch(fault)
  \/ \E commitOK \in EngineOutcomes(faults) : ScopeExit(commitOK)
  \/ Close
  \/ Kill

Next == NextIn("onebad", TRUE, TRUE, {"now"}, {0})

\* Every network outcome and every engine fault, on archives of the current
\* month with at most one malformed line, whose byte length grows with
\* every line.
Spec == Init /\ [][Next]_vars

NextImport == NextIn("distinct", FALSE, TRUE, {"now"}, {0})

\* The import of archives of well formed lines with distinct ids, under
\* connections that last until the body is complete.
SpecImport == Init /\ [][NextImport]_vars

NextFetch == NextIn("sorted", TRUE, FALSE, {"now"}, 0..MaxPad)

\* The fetcher under every network outcome, on archives as the remote source
\* writes them, of any byte length.
SpecFetch == Init /\ [][NextFetch]_vars

NextMonths == NextIn("sorted", TRUE, FALSE, Months, {0})

\* Runs on the archives of two months.
SpecMonths == Init /\ [][NextMonths]_vars

(***************************************************************************)
(* The claims                                                              *)
(***************************************************************************)

\* The file the latest run works on.
TheFile == localf[month]

FileIds(f) == {f.lines[i].id : i \in 1..Len(f.lines)}

OkIds(f) == {f.lines[i].id : i \in {j \in 1..Len(f.lines) : f.lines[j].kind = "ok"}}

WellFormed(f) == \A i \in 1..Len(f.lines) : f.lines[i].kind = "ok"

Distinct(f) ==
  \A i, j \in 1..Len(f.lines) : i # j => f.lines[i].id # f.lines[j].id

Sorted(f) ==
  \A i, j \in 1..Len(f.lines) : i < j => f.lines[i].id < f.lines[j].id

\* Lines of the file before line p whose id is above the watermark w.
Above(f, p, w) == {i \in 1..Len(f.lines) : i < p /\ f.lines[i].id > w}

\* M of the latest run: the records of its file above its watermark.
StreamSize == Cardinality(Above(TheFile, Len(TheFile.lines) + 1, last_id))

\* Ids of the rows the latest run inserted.
InsertedIds ==
  UNION {{handed[i].rows[j].id : j \in 1..handed[i].done} : i \in 1..Len(handed)}

InImport == pc \in {"import", "exit"}

\* The latest operation was a run of main whose import ran to its end.
RunOk == pc = "idle" /\ result = "ok"

\* C1 (resumability): a run's watermark is the largest stored spot_id (0 for
\* an empty or new store); while it imports, every row it inserts is a row of
\* the archive with an id above the watermark; and a run that ends normally
\* on an archive of well formed lines with distinct ids has added to the
\* store exactly the archive's ids above the watermark.
C1_Resumable ==
  /\ InImport =>
       /\ last_id = Max(dbAtStart)
       /\ \A id \in tx \cup InsertedIds : id > last_id /\ id \in FileIds(TheFile)
  /\ RunOk /\ WellFormed(TheFile) /\ Distinct(TheFile) =>
       /\ last_id = Max(dbAtStart)
       /\ db = dbAtStart \cup {id \in FileIds(TheFile) : id > Max(dbAtStart)}
       /\ InsertedIds = {id \in FileIds(TheFile) : id > Max(dbAtStart)}

\* A run resumed: it skipped ids at or below a watermark above 0 and inserted
\* the ids above it.
C1_Witness ==
  /\ RunOk /\ WellFormed(TheFile) /\ Distinct(TheFile)
  /\ dbAtStart # {}
  /\ db # dbAtStart
  /\ \E id \in FileIds(TheFile) : id <= Max(dbAtStart)

\* C2 (idempotence): when the previous run imported the archive to its end and
\* the archive has not changed, a run that ends at the freshness check or
\* reads the same file again hands no batch to the store, counts 0 records,
\* leaves the stored records as they were, and ends normally unless the
\* storage engine fails when the watermark is read.
C2_Idempotent ==
  /\ (InImport /\ prev = "ok" /\ sameFile) => (tx = {} /\ handed = <<>> /\ db = dbAtStart)
  /\ (/\ pc = "idle"
      /\ prev = "ok"
      /\ \/ result = "nothing"
         \/ result \in {"ok", "crash"} /\ sameFile /\ fetch.ret = "path")
     => /\ result = "crash" => exc = "OperationalError"
        /\ handed = <<>>
        /\ counter = 0
        /\ db = dbAtStart

\* A second run read a non-empty archive again and ended.
C2_Witness ==
  /\ RunOk /\ prev = "ok" /\ sameFile
  /\ TheFile.lines # <<>>
  /\ db # {}

\* C5 (batch commit boundary): each full batch is committed as soon as it
\* fills; a run that ends normally on a stream of M records made ceil(M/B)
\* commits of inserted rows, one for each batch, all of B rows but the last,
\* which has M mod B rows (B when M is a positive multiple of B), none for
\* M = 0; counter = M.
C5_BatchCommit ==
  /\ pc = "import" =>
       /\ \A i \in 1..Len(handed) :
            /\ Len(handed[i].rows) = BULK_LENGTH
            /\ \A j \in 1..handed[i].done : handed[i].rows[j].id \in db
       /\ counter = BULK_LENGTH * Len(handed)
       /\ ncommit = Len(handed)
  /\ RunOk =>
       /\ ncommit = Ceil(StreamSize, BULK_LENGTH)
       /\ Len(handed) = ncommit
       /\ \A i \in 1..Len(handed) :
            /\ handed[i].done = Len(handed[i].rows)
            /\ i < Len(handed) => Len(handed[i].rows) = BULK_LENGTH
       /\ StreamSize > 0 =>
            Len(handed[Len(handed)].rows) =
              IF StreamSize % BULK_LENGTH = 0 THEN BULK_LENGTH
              ELSE StreamSize % BULK_LENGTH
       /\ counter = StreamSize

\* C6 (freshness): in a call of download_archive that got the remote length L,
\* with the local size S, the body is fetched iff force is set or L > S; the
\* path is returned only when the body was fetched, and when the transfer
\* runs to its end the local file is then the remote body; when force is
\* unset and L <= S nothing is returned and the local file is left as it was.
C6_Freshness ==
  [][/\ (pc = "idle" /\ fetch'.called /\ fetch'.branch # "error") =>
          LET S == get_size(localf[month'])
              L == GzSize(Body(month'))
              fresh == fetch'.force \/ L > S
          IN /\ fetch'.branch = "download" <=> fresh
             /\ fresh => (pc' = "download" /\ fetch'.ret = "pending")
             /\ ~fresh => (fetch'.ret = "None" /\ localf' = localf /\ result' = "nothing")
     /\ (pc = "download" /\ pc' = "store") =>
          /\ fetch.branch = "download"
          /\ fetch'.ret = "path"
          /\ fetch'.xfer = "complete" => localf'[month] = Body(month)
     /\ (pc # "store" /\ pc' = "store" /\ fetch'.called) => pc = "download"
    ]_vars

\* An unforced run found a local file at least as long as the remote one.
C6_Witness ==
  /\ pc = "idle" /\ result = "nothing"
  /\ fetch.called /\ ~fetch.force /\ fetch.branch = "skip"
  /\ TheFile.exists /\ TheFile.lines # <<>>

\* C10 (one transaction per import): while wspr_import runs, nothing it
\* inserted is durable, no commit was made and the connection is the one
\* opened at its start; a run killed before commit() is called in the scope
\* exit leaves the stored records, and so the watermark, as they were when it
\* started.
C10_SingleTransaction ==
  /\ InImport => (db = dbAtStart /\ ncommit = 0 /\ conn = "open")
  /\ (pc = "idle" /\ result \in {"killed", "killed_import"}) =>
       (db = dbAtStart /\ tx = {} /\ ncommit = 0 /\ LastId(db) = LastId(dbAtStart))

\* A run was killed inside wspr_import after it had inserted a full batch.
C10_Witness ==
  /\ pc = "idle" /\ result = "killed_import"
  /\ SomeInserted
  /\ db = dbAtStart

\* The objects the script creates.
AllObjects == {SQL_TABLE[i].name : i \in 1..Len(SQL_TABLE)}

\* C3 (retry after a failure in the import): the rows inserted before the
\* failure are in the store once the scope has committed; and when the run
\* before aborted so, the archive is unchanged and its ids increase, a rerun
\* that ends normally, or ends at the freshness check of an unforced
\* download, leaves every well formed record of the archive in the store.
C3_RetryCompletes ==
  /\ (pc = "idle" /\ result = "crash" /\ conn = "closed") => InsertedIds \subseteq db
  /\ (/\ pc = "idle"
      /\ prev = "aborted"
      /\ Sorted(TheFile)
      /\ \/ result = "ok"
         \/ result = "nothing" /\ fetch.called /\ ~fetch.force /\ fetch.branch = "skip")
     => OkIds(TheFile) \subseteq db

\* C4 (batch atomicity): once the scope of an import has been left by
\* commit() and close(), each batch handed to executemany is in the store
\* with all of its rows, or none of the rows it inserted is.
C4_BatchAtomic ==
  (pc = "idle" /\ result \in {"ok", "crash"} /\ conn = "closed") =>
    \A i \in 1..Len(handed) :
      \/ handed[i].done = Len(handed[i].rows)
      \/ \A j \in 1..handed[i].done : handed[i].rows[j].id \notin db

\* C7 (no partial file imported): wspr_import never runs on a file that
\* download_archive returned from a transfer that did not complete.
C7_NoPartialImport ==
  (InImport /\ fetch.called) => TheFile.complete

\* C8 (idempotent schema creation): create_db on a store that holds the table
\* and its four indexes succeeds and leaves schema and records as they were.
C8_SchemaIdempotent ==
  (pc = "idle" /\ result \in {"created", "create_failed"} /\ schemaBefore = AllObjects) =>
    (result = "created" /\ schema = schemaBefore /\ db = dbAtStart)

\* C9 (scoped connection): once a DBConnect scope has been left, on any path,
\* its connection is closed.
C9_ScopeClosed ==
  (pc = "idle" /\ conn # "none") => conn = "closed"

=============================================================================
